---- MODULE Spec2Model ----
(***************************************************************************)
(* Model of src/model/decoders.py: the two nn.Module classes               *)
(* TransformerDecoder and CNNDecoder.                                      *)
(*                                                                         *)
(* Tensors are modelled the way torch holds them: a tensor is a record     *)
(* [sid, shape, strides] that addresses a flat storage heap[sid]; view and *)
(* permute return tensors on the same storage, Conv2d and Upsample         *)
(* allocate a fresh storage, ReLU(inplace=True) overwrites the storage of  *)
(* its argument.  Values are finite integers.                              *)
(***************************************************************************)
EXTENDS Integers, Sequences, FiniteSets, TLC

VARIABLES dec, heap, x, out, memo

vars == <<dec, heap, x, out, memo>>

(***************************************************************************)
(* Bounds of the model.                                                    *)
(***************************************************************************)
MaxBatch == 2
MaxLen == 2
MaxLayers == 1
TokenCounts == {0, 1, 2}
EmbedDims == {1, 2}
ImgDims == {-8, 8, 12, 16}
ParamSeeds == {0, 1}
Fills == {0, 1}
HeadChoices == {1, 2}
DropoutChoices == {0, 1}
MemoryLengths == {1, MaxLen + 1}
Variants == {"plain", "masks", "target_tokens", "memory_batch", "memory_embed",
             "tgt_mask", "memory_mask", "tgt_key_padding_mask",
             "memory_key_padding_mask"}

(***************************************************************************)
(* Tensor arithmetic.                                                      *)
(***************************************************************************)
RECURSIVE Prod(_)
Prod(s) == IF s = << >> THEN 1 ELSE Head(s) * Prod(Tail(s))

RECURSIVE DotTo(_, _, _)
DotTo(a, b, n) == IF n = 0 THEN 0 ELSE a[n] * b[n] + DotTo(a, b, n - 1)

Dot(a, b) == DotTo(a, b, Len(a))

Numel(shape) == Prod(shape)

\* The same sequence, written out element by element.
RECURSIVE Flat(_, _, _)
Flat(f, lo, hi) ==
  IF lo > hi THEN << >>
  ELSE IF lo = hi THEN <<f[lo]>>
  ELSE Flat(f, lo, (lo + hi) \div 2) \o Flat(f, ((lo + hi) \div 2) + 1, hi)

\* Row-major strides of a freshly allocated tensor.
ContigStrides(shape) ==
  Flat([k \in 1..Len(shape) |-> Prod(SubSeq(shape, k + 1, Len(shape)))],
       1, Len(shape))

Raise == [raise |-> "RuntimeError"]

\* Python's None.
None == [none |-> TRUE]

IsRaise(r) == "raise" \in DOMAIN r

\* An element of tensor t (0-based index idx) in heap h.
Read(h, t, idx) == h[t.sid][1 + Dot(idx, t.strides)]

\* An element of a 4-dimensional tensor.
Read4(h, t, n, c, i, j) ==
  h[t.sid][1 + n * t.strides[1] + c * t.strides[2] + i * t.strides[3]
             + j * t.strides[4]]

\* The 0-based index of row-major position k (0-based) in a shape whose
\* row-major strides are cs.
Unravel(shape, cs, k) == [d \in 1..Len(shape) |-> (k \div cs[d]) % shape[d]]

\* The storage offsets (1-based) of the elements of t in row-major order of
\* its shape.
Offsets(t) ==
  LET cs == ContigStrides(t.shape)
  IN  Flat([k \in 1..Numel(t.shape) |->
              1 + Dot(Unravel(t.shape, cs, k - 1), t.strides)], 1, Numel(t.shape))

\* The values of tensor t in row-major order of its shape: the storage itself
\* when t is contiguous and covers it.
Contents(h, t) ==
  IF t.strides = ContigStrides(t.shape) /\ Len(h[t.sid]) = Numel(t.shape)
  THEN h[t.sid]
  ELSE LET off == Offsets(t)
       IN  Flat([k \in 1..Numel(t.shape) |-> h[t.sid][off[k]]], 1, Numel(t.shape))

\* torch.empty(shape) filled with data: a new storage at the end of the heap.
Alloc(h, shape, data) ==
  [heap |-> Append(h, Flat(data, 1, Numel(shape))),
   t |-> [sid |-> Len(h) + 1, shape |-> shape, strides |-> ContigStrides(shape)]]

(***************************************************************************)
(* torch operations used by forward.                                       *)
(***************************************************************************)
RECURSIVE Sum(_, _)
Sum(f, n) == IF n = 0 THEN 0 ELSE f[n - 1] + Sum(f, n - 1)

\* Tensor.view(size) of a contiguous tensor: the same storage under another
\* shape.  One entry of size may be -1 and is then inferred; the call raises
\* when the sizes cannot hold exactly the tensor's elements.
View(t, size) ==
  LET n == Numel(t.shape)
      neg == {d \in 1..Len(size) : size[d] < 0}
      rest == Prod([d \in 1..Len(size) |-> IF size[d] < 0 THEN 1 ELSE size[d]])
      full == Flat([d \in 1..Len(size) |->
                      IF size[d] < 0 THEN n \div rest ELSE size[d]], 1, Len(size))
  IN  IF \E d \in neg : size[d] < -1 THEN Raise
      ELSE IF Cardinality(neg) > 1 THEN Raise
      ELSE IF neg # {} /\ (rest = 0 \/ n % rest # 0) THEN Raise
      ELSE IF neg = {} /\ rest # n THEN Raise
      ELSE [sid |-> t.sid, shape |-> full, strides |-> ContigStrides(full)]

\* Tensor.permute(dims), dims 0-based: the same storage, axes reordered.
Permute(t, dims) ==
  [sid |-> t.sid,
   shape |-> Flat([d \in 1..Len(dims) |-> t.shape[dims[d] + 1]], 1, Len(dims)),
   strides |-> Flat([d \in 1..Len(dims) |-> t.strides[dims[d] + 1]], 1, Len(dims))]

\* Padded, as it would be if the window were always read from the first
\* element of the batch.
Padded_first(h, t, n, c, i, j) ==
  IF i < 0 \/ i >= t.shape[3] \/ j < 0 \/ j >= t.shape[4] THEN 0
  ELSE Read4(h, t, 0, c, i, j)

\* The input of a convolution at (n, c, i, j), zero outside the image
\* (padding=1 pads with zeros).
Padded(h, t, n, c, i, j) ==
  IF i < 0 \/ i >= t.shape[3] \/ j < 0 \/ j >= t.shape[4] THEN 0
  ELSE Read4(h, t, n, c, i, j)

\* One output element of nn.Conv2d: bias plus the weighted 3x3 neighbourhood
\* of every input channel of the same batch element.
ConvAt(h, m, t, n, co, i, j) ==
  LET ks == m.kernel_size
      taps == [q \in 0..(m.in_channels * ks * ks - 1) |->
                 LET ci == q \div (ks * ks)
                     ki == (q \div ks) % ks
                     kj == q % ks
                 IN  Read4(h, m.weight, co, ci, ki, kj)
                       * Padded(h, t, n, ci, i + ki - m.padding, j + kj - m.padding)]
  IN  Read(h, m.bias, <<co>>) + Sum(taps, m.in_channels * ks * ks)

\* nn.Conv2d(in_channels, out_channels, kernel_size=3, padding=1) applied to
\* t of shape (batch, channels, height, width): a new tensor.
Conv2d(m, h, t) ==
  LET ho == t.shape[3] + 2 * m.padding - m.kernel_size + 1
      wo == t.shape[4] + 2 * m.padding - m.kernel_size + 1
      shape == <<t.shape[1], m.out_channels, ho, wo>>
      cs == ContigStrides(shape)
      data == [k \in 1..Numel(shape) |->
                 LET ix == Unravel(shape, cs, k - 1)
                 IN  ConvAt(h, m, t, ix[1], ix[2], ix[3], ix[4])]
  IN  IF t.shape[2] # m.in_channels THEN Raise
      ELSE IF ho < 1 \/ wo < 1 THEN Raise
      ELSE Alloc(h, shape, data)

Max0(v) == IF v < 0 THEN 0 ELSE v

\* nn.ReLU(inplace=True): overwrites the elements of its argument and
\* returns the argument itself.
ReLU(m, h, t) ==
  LET off == Offsets(t)
      addressed == {off[k] : k \in 1..Numel(t.shape)}
      data == [a \in 1..Len(h[t.sid]) |->
                 IF a \in addressed THEN Max0(h[t.sid][a]) ELSE h[t.sid][a]]
  IN  IF m.inplace
      THEN [heap |-> [h EXCEPT ![t.sid] = Flat(data, 1, Len(h[t.sid]))], t |-> t]
      ELSE Alloc(h, t.shape, [k \in 1..Numel(t.shape) |-> Max0(h[t.sid][off[k]])])

\* nn.Upsample(scale_factor=2, mode='nearest'): a new tensor in which output
\* pixel (i, j) copies input pixel (i div 2, j div 2).
Upsample(m, h, t) ==
  LET s == m.scale_factor
      shape == <<t.shape[1], t.shape[2], s * t.shape[3], s * t.shape[4]>>
      cs == ContigStrides(shape)
      data == [k \in 1..Numel(shape) |->
                 LET ix == Unravel(shape, cs, k - 1)
                 IN  Read4(h, t, ix[1], ix[2], ix[3] \div s, ix[4] \div s)]
  IN  Alloc(h, shape, data)

Apply(m, h, t) ==
  CASE m.kind = "Conv2d" -> Conv2d(m, h, t)
    [] m.kind = "ReLU" -> ReLU(m, h, t)
    [] m.kind = "Upsample" -> Upsample(m, h, t)

\* nn.Sequential: the modules in order, each on the result of the one before;
\* an exception of any module ends the call.
RECURSIVE Sequential(_, _, _)
Sequential(mods, h, t) ==
  IF mods = << >> THEN [heap |-> h, t |-> t]
  ELSE LET r == Apply(Head(mods), h, t)
       IN  IF IsRaise(r) THEN [raise |-> r.raise, heap |-> h]
           ELSE Sequential(Tail(mods), r.heap, r.t)

(***************************************************************************)
(* CNNDecoder.                                                             *)
(***************************************************************************)
\* The initial value of parameter element k: torch draws it at random; the
\* model draws the seed.
InitValue(seed, k) == ((seed + 2 * k) % 5) - 2

\* nn.Conv2d(in_channels, out_channels, kernel_size=3, padding=1): the module
\* and its two parameter tensors, allocated at construction.
Conv2d_init(h, in_channels, out_channels, seed) ==
  LET ws == <<out_channels, in_channels, 3, 3>>
      w == Alloc(h, ws, [k \in 1..Numel(ws) |-> InitValue(seed, k)])
      b == Alloc(w.heap, <<out_channels>>,
                 [k \in 1..out_channels |-> InitValue(seed + 1, k)])
  IN  [heap |-> b.heap,
       m |-> [kind |-> "Conv2d", in_channels |-> in_channels,
              out_channels |-> out_channels, kernel_size |-> 3, padding |-> 1,
              weight |-> w.t, bias |-> b.t]]

ReLU_init == [kind |-> "ReLU", inplace |-> TRUE]

\* Upsample_init, as it would be if the layers did not upsample.
Upsample_off == [kind |-> "Upsample", scale_factor |-> 1]

Upsample_init == [kind |-> "Upsample", scale_factor |-> 2]

\* Conv2d, ReLU(inplace=True), Upsample(scale_factor=2), in this order.
Stage(conv) == <<conv, ReLU_init, Upsample_init>>

\* layer1, as it would be if the nonlinearity came before the convolution.
layer1_relu_first(conv) == <<ReLU_init, conv, Upsample_init>>

layer1(conv) == Stage(conv)

layer2(conv) == Stage(conv)

\* layer3, as it would be if the last stage had no nonlinearity.
layer3_linear(conv) == <<conv, Upsample_init>>

layer3(conv) == Stage(conv)

grid_h(img_height) == img_height \div 8

grid_w(img_width) == img_width \div 8

\* CNNDecoder.__init__: the object and the heap that holds its parameters.
\* No argument is validated.
CNNDecoder_init(embed_dim, img_height, img_width, seed) ==
  LET c1 == Conv2d_init(<< >>, embed_dim, embed_dim, seed)
      c2 == Conv2d_init(c1.heap, embed_dim, embed_dim, seed + 1)
      c3 == Conv2d_init(c2.heap, embed_dim, 3, seed + 2)
  IN  [heap |-> c3.heap,
       self |-> [kind |-> "CNNDecoder",
                 training |-> TRUE,
                 img_height |-> img_height,
                 img_width |-> img_width,
                 grid_h |-> grid_h(img_height),
                 grid_w |-> grid_w(img_width),
                 layer1 |-> layer1(c1.m),
                 layer2 |-> layer2(c2.m),
                 layer3 |-> layer3(c3.m)]]

\* SelfAfterForward, as it would be if forward stored the length of the
\* sequence it was given as the height of the grid.
SelfAfterForward_regrid(self, t) == [self EXCEPT !.grid_h = t.shape[2]]

\* What forward assigns to self: nothing.
SelfAfterForward(self, t) == self

\* CNNDecoder.forward(x).  The result records whether the call returned or
\* raised, how many of the three stages were entered, the heap as the call
\* left it, the object, and the returned tensor.
CNNDecoder_forward(self, h, t) ==
  LET batch_size == t.shape[1]
      channels == t.shape[3]
      v == View(t, <<batch_size, self.grid_h, self.grid_w, channels>>)
      p == Permute(v, <<0, 3, 1, 2>>)
      r1 == Sequential(self.layer1, h, p)
      r2 == Sequential(self.layer2, r1.heap, r1.t)
      r3 == Sequential(self.layer3, r2.heap, r2.t)
      done(status, stages, hh) ==
        [status |-> status, stages |-> stages, heap |-> hh,
         self |-> SelfAfterForward(self, t)]
  IN  IF IsRaise(v) THEN done("raise", 0, h)
      ELSE IF IsRaise(r1) THEN done("raise", 1, r1.heap)
      ELSE IF IsRaise(r2) THEN done("raise", 2, r2.heap)
      ELSE IF IsRaise(r3) THEN done("raise", 3, r3.heap)
      ELSE [status |-> "ok", stages |-> 3, heap |-> r3.heap,
            self |-> SelfAfterForward(self, t), t |-> r3.t]

(***************************************************************************)
(* TransformerDecoder.  Its tensors are modelled by their shapes; the      *)
(* value of a result is the arguments it was computed from together with   *)
(* the dropout masks drawn during the call.                                *)
(***************************************************************************)
\* The default of the constructor's dim_feedforward.
default_dim_feedforward == 2048

\* TransformerDecoder.__init__ with dropout given in tenths.  The attention
\* modules of nn.TransformerDecoderLayer require nhead to divide d_model;
\* construction fails otherwise.
TransformerDecoder_init(d_model, nhead, dim_feedforward, dropout, n_layers) ==
  IF d_model % nhead # 0 THEN Raise
  ELSE [kind |-> "TransformerDecoder",
        training |-> TRUE,
        decoder_layer |-> [d_model |-> d_model, nhead |-> nhead,
                           dim_feedforward |-> dim_feedforward,
                           dropout |-> dropout,
                           batch_first |-> TRUE, norm_first |-> TRUE],
        num_layers |-> n_layers]

\* A tensor known by its shape alone.
Shaped(shape) == [shape |-> shape]

\* nn.LayerNorm(d_model) normalises the last axis, which must be d_model long.
LayerNormShape(layer, t) == IF t.shape[3] # layer.d_model THEN Raise ELSE t

\* MultiheadAttentionShape, as it would be if the result had the length of
\* the key instead of the length of the query.
MultiheadAttentionShape_key(layer, query, key, attn_mask, key_padding_mask) ==
  LET q == query.shape
      k == key.shape
  IN  IF q[3] # layer.d_model \/ k[3] # layer.d_model THEN Raise
      ELSE IF k[1] # q[1] THEN Raise
      ELSE IF attn_mask # None /\ attn_mask.shape # <<q[2], k[2]>> THEN Raise
      ELSE IF key_padding_mask # None /\ key_padding_mask.shape # <<q[1], k[2]>>
      THEN Raise
      ELSE Shaped(<<q[1], k[2], layer.d_model>>)

\* nn.MultiheadAttention, batch first: query (N, L, E), key and value
\* (N, S, E); attn_mask is (L, S), key_padding_mask is (N, S).  The result
\* has the shape of the query.
MultiheadAttentionShape(layer, query, key, attn_mask, key_padding_mask) ==
  LET q == query.shape
      k == key.shape
  IN  IF q[3] # layer.d_model \/ k[3] # layer.d_model THEN Raise
      ELSE IF k[1] # q[1] THEN Raise
      ELSE IF attn_mask # None /\ attn_mask.shape # <<q[2], k[2]>> THEN Raise
      ELSE IF key_padding_mask # None /\ key_padding_mask.shape # <<q[1], k[2]>>
      THEN Raise
      ELSE Shaped(<<q[1], q[2], layer.d_model>>)

\* linear2(dropout(activation(linear1(x)))): d_model -> dim_feedforward ->
\* d_model on the last axis.
FeedForwardShape(layer, t) ==
  IF t.shape[3] # layer.d_model THEN Raise
  ELSE Shaped(<<t.shape[1], t.shape[2], layer.d_model>>)

\* x + block(x): the two shapes must agree.
ResidualShape(t, u) == IF IsRaise(u) \/ t.shape # u.shape THEN Raise ELSE t

\* nn.TransformerDecoderLayer.forward with norm_first=True:
\*   x = x + sa(norm1(x)); x = x + mha(norm2(x), memory); x = x + ff(norm3(x)).
TransformerDecoderLayerShape(layer, t, a) ==
  LET n1 == LayerNormShape(layer, t)
      sa == IF IsRaise(n1) THEN Raise
            ELSE MultiheadAttentionShape(layer, n1, n1, a.tgt_mask,
                                         a.tgt_key_padding_mask)
      x1 == ResidualShape(t, sa)
      n2 == IF IsRaise(x1) THEN Raise ELSE LayerNormShape(layer, x1)
      ca == IF IsRaise(n2) THEN Raise
            ELSE MultiheadAttentionShape(layer, n2, a.memory, a.memory_mask,
                                         a.memory_key_padding_mask)
      x2 == IF IsRaise(x1) THEN Raise ELSE ResidualShape(x1, ca)
      n3 == IF IsRaise(x2) THEN Raise ELSE LayerNormShape(layer, x2)
      ff == IF IsRaise(n3) THEN Raise ELSE FeedForwardShape(layer, n3)
  IN  IF IsRaise(x2) THEN Raise ELSE ResidualShape(x2, ff)

\* nn.TransformerDecoder.forward: the layers in turn, each on the output of
\* the one before; no layer, no change.
RECURSIVE TransformerShape(_, _, _, _)
TransformerShape(layer, n, t, a) ==
  IF n = 0 THEN t
  ELSE LET u == TransformerDecoderLayerShape(layer, t, a)
       IN  IF IsRaise(u) THEN Raise ELSE TransformerShape(layer, n - 1, u, a)

\* DropoutActive, as it would be if dropout ignored the mode of the module.
DropoutActive_always(self) ==
  self.decoder_layer.dropout > 0 /\ self.num_layers > 0

\* Dropout draws a random mask when the module is in training mode and its
\* probability is not zero; otherwise it is the identity.
DropoutActive(self) ==
  self.training /\ self.decoder_layer.dropout > 0 /\ self.num_layers > 0

\* TransformerDecoder.forward(target_tokens, memory, tgt_mask, memory_mask,
\* tgt_key_padding_mask, memory_key_padding_mask), a being the arguments and
\* drawn the dropout masks drawn by this call.
TransformerDecoder_forward(self, a, drawn) ==
  LET r == TransformerShape(self.decoder_layer, self.num_layers,
                            a.target_tokens, a)
  IN  IF IsRaise(r) THEN [status |-> "raise"]
      ELSE [status |-> "ok", shape |-> r.shape,
            val |-> [args |-> a, drawn |-> IF DropoutActive(self) THEN drawn ELSE 0]]

(***************************************************************************)
(* The state machine: one decoder object, the caller's input, the result   *)
(* of the forward call on it, and the reference call: the first call on a  *)
(* batch of one element that returned.                                     *)
(***************************************************************************)
\* The parameter storages are the ones allocated by the constructor.
NumParamStorages == IF dec.kind = "CNNDecoder" THEN 6 ELSE 0

Params(h) == SubSeq(h, 1, NumParamStorages)

\* The caller's data.  Batch element i of an input drawn with fill f holds
\* pattern (f + i) mod 2, so that the same element occurs in different
\* inputs at different places of the batch and beside different elements.
Pattern(q, j) == ((q + j * (q + 1)) % 3) - 1

FillValue(f, per, k) == Pattern((f + ((k - 1) \div per)) % 2, ((k - 1) % per) + 1)

\* A tensor by value: its shape and its elements in row-major order.
Value(h, t) == [shape |-> t.shape, data |-> Contents(h, t)]

InitCNN ==
  \E e \in EmbedDims, ih \in ImgDims, iw \in ImgDims, seed \in ParamSeeds :
    LET c == CNNDecoder_init(e, ih, iw, seed)
    IN  /\ dec = c.self
        /\ heap = c.heap
        /\ x = None
        /\ out = None
        /\ memo = None

\* The caller makes a new (batch, num_tokens, channels) input tensor, once
\* it has used the previous one, and drops the previous input and result.
NewInput ==
  \E b \in 0..MaxBatch, n \in TokenCounts, c \in EmbedDims, f \in Fills :
    /\ dec.kind = "CNNDecoder"
    /\ x = None \/ out # None
    /\ \E a \in {Alloc(Params(heap), <<b, n, c>>,
                       [k \in 1..(b * n * c) |-> FillValue(f, n * c, k)])} :
         /\ heap' = a.heap
         /\ x' = a.t
    /\ out' = None
    /\ UNCHANGED <<dec, memo>>

\* The arguments of a call on a decoder of width e: target_tokens (n, t, e)
\* and a memory of length s.  In variant "plain" no mask is given and
\* everything fits; in "masks" all four masks are given with the shapes the
\* lengths ask for; every other variant names the one argument that is given
\* with a wrong shape.
Arguments(n, t, s, e, v) ==
  LET mask(name, good, bad) ==
        IF v = "masks" THEN Shaped(good)
        ELSE IF v = name THEN Shaped(bad)
        ELSE None
  IN  [target_tokens |-> Shaped(<<n, t, IF v = "target_tokens" THEN e + 1 ELSE e>>),
       memory |-> Shaped(<<IF v = "memory_batch" THEN n + 1 ELSE n, s,
                           IF v = "memory_embed" THEN e + 1 ELSE e>>),
       tgt_mask |-> mask("tgt_mask", <<t, t>>, <<t + 1, t>>),
       memory_mask |-> mask("memory_mask", <<t, s>>, <<t, s + 1>>),
       tgt_key_padding_mask |-> mask("tgt_key_padding_mask", <<n, t>>, <<n, t + 1>>),
       memory_key_padding_mask |->
         mask("memory_key_padding_mask", <<n, s>>, <<n + 1, s>>)]

\* The calls one of which becomes the reference call: a CNNDecoder input
\* that is a batch of one element, TransformerDecoder arguments that are one
\* target token and one memory token in a batch of one, without masks.
IsReference(a) ==
  IF dec.kind = "CNNDecoder" THEN a.shape[1] = 1
  ELSE a = Arguments(1, 1, 1, dec.decoder_layer.d_model, "plain")

\* y = decoder(x).  When the call ends, the tensors it made and did not
\* return are freed; the input and the result stay with the caller.
Forward ==
  /\ dec.kind = "CNNDecoder"
  /\ x # None
  /\ out = None
  /\ \E r \in {CNNDecoder_forward(dec, heap, x)} :
       /\ dec' = r.self
       /\ heap' = IF r.status = "ok"
                  THEN Append(SubSeq(r.heap, 1, x.sid), r.heap[r.t.sid])
                  ELSE SubSeq(r.heap, 1, x.sid)
       /\ out' = IF r.status = "ok"
                 THEN [status |-> "ok", stages |-> r.stages,
                       t |-> [r.t EXCEPT !.sid = x.sid + 1]]
                 ELSE [status |-> "raise", stages |-> r.stages]
       /\ memo' = IF memo = None /\ r.status = "ok" /\ IsReference(x)
                  THEN [in |-> Value(heap, x), out |-> Value(r.heap, r.t)]
                  ELSE memo
  /\ UNCHANGED x

InitTransformer ==
  \E d \in EmbedDims, h \in HeadChoices, p \in DropoutChoices, l \in 0..MaxLayers :
    LET t == TransformerDecoder_init(d, h, default_dim_feedforward, p, l)
    IN  /\ ~IsRaise(t)
        /\ dec = t
        /\ heap = << >>
        /\ x = None
        /\ out = None
        /\ memo = None

\* The caller makes new arguments for the TransformerDecoder, once it has
\* used the previous ones, and drops the previous result.
NewArguments ==
  \E n \in 1..MaxBatch, t \in 1..MaxLen, s \in MemoryLengths, v \in Variants :
    /\ dec.kind = "TransformerDecoder"
    /\ x = None \/ out # None
    /\ x' = Arguments(n, t, s, dec.decoder_layer.d_model, v)
    /\ out' = None
    /\ UNCHANGED <<dec, heap, memo>>

\* nn.Module.train(mode): decoder.train() and decoder.eval(), called by the
\* caller before a forward call.
Train(mode) ==
  /\ dec.kind = "TransformerDecoder"
  /\ out = None
  /\ dec.training # mode
  /\ dec' = [dec EXCEPT !.training = mode]
  /\ UNCHANGED <<heap, x, out, memo>>

\* y = decoder(target_tokens, memory, ...), the random generator giving the
\* masks `drawn` to any dropout that asks.
TForward ==
  /\ dec.kind = "TransformerDecoder"
  /\ x # None
  /\ out = None
  /\ \E drawn \in {1, 2} :
       \E r \in {TransformerDecoder_forward(dec, x, drawn)} :
         /\ out' = r
         /\ memo' = IF memo = None /\ r.status = "ok" /\ IsReference(x)
                    THEN [in |-> x, out |-> r, training |-> dec.training]
                    ELSE memo
  /\ UNCHANGED <<dec, heap, x>>

Init == InitCNN \/ InitTransformer

Next ==
  \/ NewInput
  \/ Forward
  \/ NewArguments
  \/ Train(TRUE)
  \/ Train(FALSE)
  \/ TForward

Spec == Init /\ [][Next]_vars

(***************************************************************************)
(* Properties.                                                             *)
(***************************************************************************)
IsCNN == dec.kind = "CNNDecoder"

IsTransformer == dec.kind = "TransformerDecoder"

\* forward has been called on the current input, and has returned.
Called == x # None /\ out # None

Returned == Called /\ out.status = "ok"

\* Batch element j (from 0) of a tensor by value, in row-major order.
Element(v, j) ==
  LET per == Prod(Tail(v.shape))
  IN  SubSeq(v.data, j * per + 1, (j + 1) * per)

\* C1: a CNNDecoder constructed with an img_height and an img_width that are
\* positive multiples of 8, called with an input of shape
\* (batch, (img_height/8)*(img_width/8), embed_dim), returns a tensor of shape
\* exactly (batch, 3, img_height, img_width).
C1_OutputShape ==
  (/\ IsCNN /\ Called
   /\ dec.img_height > 0 /\ dec.img_height % 8 = 0
   /\ dec.img_width > 0 /\ dec.img_width % 8 = 0
   /\ x.shape[2] = (dec.img_height \div 8) * (dec.img_width \div 8)
   /\ x.shape[3] = dec.layer1[1].in_channels)
  => /\ out.status = "ok"
     /\ out.t.shape = <<x.shape[1], 3, dec.img_height, dec.img_width>>

\* A batch of two sequences of two tokens has become two 8 x 16 images.
C1_Witness ==
  /\ IsCNN /\ Returned
  /\ dec.img_height = 8 /\ dec.img_width = 16
  /\ x.shape = <<2, 2, dec.layer1[1].in_channels>>
  /\ out.t.shape = <<2, 3, 8, 16>>

\* C2: constructing a CNNDecoder with an img_height or an img_width that is
\* not divisible by 8 fails: no decoder object exists whose img_height or
\* img_width is not a multiple of 8, holding a truncated grid.
C2_NonDivisibleRejected ==
  IsCNN => dec.img_height % 8 = 0 /\ dec.img_width % 8 = 0

\* C3: whenever num_tokens differs from grid_h * grid_w, whatever the batch
\* size, forward raises, and does so before the first stage runs.
C3_WrongLengthRaises ==
  (IsCNN /\ Called /\ x.shape[2] # dec.grid_h * dec.grid_w)
  => out.status = "raise" /\ out.stages = 0

\* C4: whenever forward returns, the spatial size of the result is
\* (8 * (img_height // 8), 8 * (img_width // 8)), and it is the requested
\* (img_height, img_width) if and only if both are divisible by 8.
C4_SpatialSize ==
  (IsCNN /\ Returned)
  => /\ out.t.shape[3] = 8 * (dec.img_height \div 8)
     /\ out.t.shape[4] = 8 * (dec.img_width \div 8)
     /\ (out.t.shape[3] = dec.img_height /\ out.t.shape[4] = dec.img_width)
        <=> (dec.img_height % 8 = 0 /\ dec.img_width % 8 = 0)

\* The arguments the claim C5 is about: target_tokens of the decoder's width,
\* a memory of the same batch size and width, and each mask either absent
\* or of the shape the lengths ask for.
Legal(a) ==
  LET n == a.target_tokens.shape[1]
      t == a.target_tokens.shape[2]
      s == a.memory.shape[2]
  IN  /\ a.target_tokens.shape[3] = dec.decoder_layer.d_model
      /\ a.memory.shape[1] = n
      /\ a.memory.shape[3] = a.target_tokens.shape[3]
      /\ a.tgt_mask = None \/ a.tgt_mask = Shaped(<<t, t>>)
      /\ a.memory_mask = None \/ a.memory_mask = Shaped(<<t, s>>)
      /\ a.tgt_key_padding_mask = None \/ a.tgt_key_padding_mask = Shaped(<<n, t>>)
      /\ a.memory_key_padding_mask = None
         \/ a.memory_key_padding_mask = Shaped(<<n, s>>)

\* C5: TransformerDecoder.forward returns for every target_tokens and memory
\* that share batch size and embed_dim, with or without fitting masks,
\* whatever the memory length and the number of layers, and whatever it
\* returns has the shape of target_tokens.
C5_ShapePreserved ==
  (IsTransformer /\ Called)
  => /\ Legal(x) => out.status = "ok"
     /\ out.status = "ok" => out.shape = x.target_tokens.shape

\* A decoder with a layer has returned for a batch of two with all four
\* masks and a memory longer than the target.
C5_Witness ==
  /\ IsTransformer /\ Called /\ Legal(x)
  /\ dec.num_layers >= 1
  /\ x.target_tokens.shape[1] = 2
  /\ x.memory.shape[2] > x.target_tokens.shape[2]
  /\ x.tgt_mask # None /\ x.memory_key_padding_mask # None
  /\ out.status = "ok"
  /\ out.shape = x.target_tokens.shape

\* C6: the output for a batch element depends only on that element and the
\* parameters: wherever in a batch, and beside whatever other elements, the
\* input of the reference call occurs, the output at that place is the
\* output of the reference call.
C6_BatchIndependence ==
  (IsCNN /\ Returned /\ memo # None)
  => \A j \in 0..(x.shape[1] - 1) :
       (/\ Tail(x.shape) = Tail(memo.in.shape)
        /\ Element(Value(heap, x), j) = memo.in.data)
       => /\ Tail(out.t.shape) = Tail(memo.out.shape)
          /\ Element(Value(heap, out.t), j) = memo.out.data

\* The input of the reference call is the second element of a batch of two
\* whose first element is another one, and the two outputs differ.
C6_Witness ==
  /\ IsCNN /\ Returned /\ memo # None
  /\ x.shape[1] = 2
  /\ Tail(x.shape) = Tail(memo.in.shape)
  /\ Element(Value(heap, x), 1) = memo.in.data
  /\ Element(Value(heap, x), 0) # memo.in.data
  /\ Element(Value(heap, out.t), 1) = memo.out.data
  /\ Element(Value(heap, out.t), 0) # memo.out.data

\* Dropout is inactive in a module that is in evaluation mode or whose
\* dropout probability is zero.
DropoutInactive(training) == ~training \/ dec.decoder_layer.dropout = 0

C8_NonNegative ==
  (IsCNN /\ Returned)
  => \A k \in 1..Len(heap[out.t.sid]) : heap[out.t.sid][k] >= 0

\* The call returned an image with a positive value, and the same call
\* without the nonlinearity of stage 3 returns a negative value.
C8_Witness ==
  /\ IsCNN /\ Returned
  /\ \E k \in 1..Len(heap[out.t.sid]) : heap[out.t.sid][k] > 0
  /\ LET linear == [dec EXCEPT !.layer3 = <<dec.layer3[1], dec.layer3[3]>>]
         r == CNNDecoder_forward(linear, heap, x)
     IN  \E k \in 1..Len(r.heap[r.t.sid]) : r.heap[r.t.sid][k] < 0

\* C9: no step changes the CNNDecoder object (img_height, img_width, grid_h,
\* grid_w, the layers) or the contents of its parameter tensors, whether a
\* forward call returns or raises.
C9_FrameOfForward ==
  [][IsCNN => (dec' = dec /\ Params(heap') = Params(heap))]_vars

\* forward has returned for one input and raised for a later one.
C9_Witness ==
  /\ IsCNN /\ memo # None /\ Called /\ out.status = "raise"

\* C10: a forward call leaves the caller's input tensor as it was: the same
\* tensor with the same contents.
C10_InputUnchanged ==
  [][(IsCNN /\ x # None /\ out = None /\ out' # None)
     => (x' = x /\ Contents(heap', x') = Contents(heap, x))]_vars

\* forward has returned for an input that holds a negative value.
C10_Witness ==
  /\ IsCNN /\ Returned
  /\ x.shape[1] >= 1
  /\ \E k \in 1..Len(heap[x.sid]) : heap[x.sid][k] < 0

====
